---- MODULE Spec2Model ----
(***************************************************************************)
(* Order placement and inventory consistency of the storefront back end.   *)
(*                                                                         *)
(* State: the products, customers and orders tables of the hosted store,   *)
(* the position of every in-flight POST /orders request, and the checkout  *)
(* dialog of every browser.  A request                                     *)
(* handler is split at its awaits: every action is the code that runs      *)
(* around one round trip to the store, and each round trip is atomic.      *)
(*                                                                         *)
(* Currency is counted in fils (thousandths of a dinar): 1.5 is 1500.      *)
(* A JavaScript undefined string is "", an optional number is a sequence   *)
(* of length 0 or 1.                                                       *)
(***************************************************************************)
EXTENDS Integers, Sequences, FiniteSets, TLC

VARIABLES
    products,   \* products table: id -> row
    customers,  \* customers table: id -> row
    orders,     \* orders table: sequence of rows, in insertion order
    req,        \* per request slot: position and locals of the handler
    route,      \* which of the two createOrder handlers is mounted
    adminOps,   \* number of operations made by the administrator
    categories, \* categories table: set of ids
    admin_users,        \* admin_users table: sequence of rows
    fallbackAdminUser,  \* per server process: its in-memory admin, if any
    startup,    \* per server process: the admin-db module it loaded and
                \* the position of initializeDefaultAdmin
    accepted,   \* the password of the last seeding or accepted change
    last,       \* the administrator's last operation and its answer
    dialog      \* per browser: the state of its CheckoutDialog and its cart

\* the state of the administrator's sign-in
auth == <<admin_users, fallbackAdminUser, startup, accepted>>

vars == <<products, customers, orders, req, route, adminOps, categories,
          admin_users, fallbackAdminUser, startup, accepted, last, dialog>>

----------------------------------------------------------------------------
(* Bounds of the explored inputs *)

MaxStock == 2
MaxQty == 2
MaxAdminOps == 1

Slots == {1, 2}
Prices == {5000, 10000}
Routes == {"orders.ts", "part_011"}

----------------------------------------------------------------------------
(* Pure helpers of the handlers *)

Max(a, b) == IF a >= b THEN a ELSE b

RECURSIVE SumStock(_)
SumStock(variants) ==
    IF variants = <<>> THEN 0
    ELSE Head(variants).stock + SumStock(Tail(variants))

\* variant: the lines are priced from the catalogue instead of the request
RECURSIVE ItemsTotalCatalog(_)
ItemsTotalCatalog(items) ==
    IF items = <<>> THEN 0
    ELSE products[Head(items).productId].price * Head(items).quantity
           + ItemsTotalCatalog(Tail(items))

RECURSIVE ItemsTotal(_)
ItemsTotal(items) ==
    IF items = <<>> THEN 0
    ELSE Head(items).price * Head(items).quantity + ItemsTotal(Tail(items))

\* orders.total is DECIMAL(10,2): the store rounds to hundredths (10 fils)
Decimal2(fils) ==
    IF fils >= 0 THEN ((fils + 5) \div 10) * 10
    ELSE -(((-fils + 5) \div 10) * 10)

FlatDeliveryFee == 1500

ServerDeliveryFee(deliveryType) ==
    IF deliveryType = "delivery" THEN FlatDeliveryFee ELSE 0

freeDeliveryMinimum == 20000
deliveryFeeSetting == 1500
deliveryAreaSitra == 1000
deliveryAreaMuharraq == 1500
deliveryAreaOther == 2000

getDeliveryFeeForArea(deliveryType, deliveryArea, totalPrice) ==
    IF deliveryType # "delivery" THEN 0
    ELSE IF totalPrice >= freeDeliveryMinimum THEN 0
    ELSE CASE deliveryArea = "sitra" -> deliveryAreaSitra
           [] deliveryArea = "muharraq" -> deliveryAreaMuharraq
           [] deliveryArea = "other" -> deliveryAreaOther
           [] OTHER -> deliveryFeeSetting

\* variant: the sentinel is looked up like the id of a variant
NamesVariantNoSentinel(item) == item.variantId # ""

\* item.variantId && item.variantId !== "no-variant"
NamesVariant(item) == item.variantId # "" /\ item.variantId # "no-variant"

\* product.variants.find((v) => v.id === item.variantId): index or 0
FindVariant(product, variantId) ==
    IF \E k \in 1..Len(product.variants) : product.variants[k].id = variantId
    THEN CHOOSE k \in 1..Len(product.variants) :
            /\ product.variants[k].id = variantId
            /\ \A j \in 1..(k - 1) : product.variants[j].id # variantId
    ELSE 0

NoError == [kind |-> "", available |-> 0, requested |-> 0]
Err(kind) == [kind |-> kind, available |-> 0, requested |-> 0]

\* the three synchronous checks at the top of the item loop
FieldError(item) ==
    IF item.productId = "" \/ item.quantity = 0 \/ item.price = 0
    THEN Err("ItemFields")
    ELSE IF item.quantity <= 0 THEN Err("BadQuantity")
    ELSE IF item.price < 0 THEN Err("NegativePrice")
    ELSE NoError

RECURSIVE FirstFieldError(_)
FirstFieldError(items) ==
    IF items = <<>> THEN NoError
    ELSE IF FieldError(Head(items)) # NoError THEN FieldError(Head(items))
    ELSE FirstFieldError(Tail(items))

\* the checks made on one item against the product row just read
StockError(item, rows) ==
    IF item.productId \notin DOMAIN rows THEN Err("ProductNotFound")
    ELSE LET product == rows[item.productId] IN
         IF NamesVariant(item)
         THEN LET k == FindVariant(product, item.variantId) IN
              IF k = 0 THEN Err("VariantNotFound")
              ELSE IF product.variants[k].stock < item.quantity
                   THEN [kind |-> "InsufficientStock",
                         available |-> product.variants[k].stock,
                         requested |-> item.quantity]
                   ELSE NoError
         ELSE IF product.total_stock < item.quantity
              THEN [kind |-> "InsufficientStock",
                    available |-> product.total_stock,
                    requested |-> item.quantity]
              ELSE NoError

\* finalTotal of the mounted handler
FinalTotal(rt, body) ==
    LET expected == ItemsTotal(body.items) + ServerDeliveryFee(body.deliveryType)
    IN  IF rt = "part_011" /\ body.total # <<>> THEN body.total[1] ELSE expected

OrElse(s, dflt) == IF s = "" THEN dflt ELSE s

\* variant: the test on the variant's id is missing from the map
StockPatchAll(product, item) ==
    IF NamesVariant(item)
    THEN LET updatedVariants ==
                [k \in 1..Len(product.variants) |->
                    [product.variants[k] EXCEPT !.stock = @ - item.quantity]]
         IN  [price |-> <<>>,
              variants |-> <<updatedVariants>>,
              total_stock |-> <<SumStock(updatedVariants)>>]
    ELSE [price |-> <<>>,
          variants |-> <<>>,
          total_stock |-> <<Max(0, product.total_stock - item.quantity)>>]

\* the patch the decrement loop writes for one item, from the row it read
StockPatch(product, item) ==
    IF NamesVariant(item)
    THEN LET updatedVariants ==
                [k \in 1..Len(product.variants) |->
                    IF product.variants[k].id = item.variantId
                    THEN [product.variants[k] EXCEPT
                             !.stock = @ - item.quantity]
                    ELSE product.variants[k]]
         IN  [price |-> <<>>,
              variants |-> <<updatedVariants>>,
              total_stock |-> <<SumStock(updatedVariants)>>]
    ELSE [price |-> <<>>,
          variants |-> <<>>,
          total_stock |-> <<Max(0, product.total_stock - item.quantity)>>]

\* productDb.update: the columns named in the patch replace those of the row
ApplyPatch(row, patch) ==
    [price |-> IF patch.price = <<>> THEN row.price ELSE patch.price[1],
     variants |-> IF patch.variants = <<>> THEN row.variants
                  ELSE patch.variants[1],
     total_stock |-> IF patch.total_stock = <<>> THEN row.total_stock
                     ELSE patch.total_stock[1],
     category_id |-> row.category_id]

\* variant: the decrement is computed from the row as it is when written
DecrementedRowAtomic(current, read, item) ==
    ApplyPatch(current, StockPatch(current, item))

\* the row a decrement leaves in the table: the patch was computed from the
\* row the handler read earlier, and is applied to the row as it is now
DecrementedRow(current, read, item) ==
    ApplyPatch(current, StockPatch(read, item))

\* CartContext.getTotalPrice: the sum of the cart's lines
RECURSIVE getTotalPrice(_)
getTotalPrice(cart) ==
    IF cart = <<>> THEN 0
    ELSE Head(cart).price * Head(cart).quantity + getTotalPrice(Tail(cart))

----------------------------------------------------------------------------
(* Inputs *)

Item(p, v, q, pr) ==
    [productId |-> p, variantId |-> v, quantity |-> q, price |-> pr]

Targets == {<<"p1", "v1">>, <<"p1", "v2">>, <<"p1", "no-variant">>,
            <<"p2", "">>}

\* carts of one line at the catalogue price of p1
StockCarts ==
    {<<Item(t[1], t[2], q, 10000)>> : t \in Targets, q \in 1..MaxQty}

\* carts of two lines
TwoLineCarts ==
    {<<Item("p1", "v1", 1, 10000), Item(t[1], t[2], q, 10000)>> :
        t \in Targets, q \in {1, MaxQty}}

\* carts of one line whose price was read from the catalogue at any time
PricedCarts ==
    {<<Item("p1", "v1", q, pr)>> : q \in 1..MaxQty, pr \in Prices}

Carts == StockCarts \cup TwoLineCarts \cup PricedCarts

Pickup == <<"pickup", "sitra">>
Deliveries == {Pickup, <<"delivery", "sitra">>, <<"delivery", "other">>}

\* the carts and delivery choices of the storefront
Checkouts ==
    {<<cart, Pickup>> : cart \in StockCarts \cup TwoLineCarts}
    \cup {<<cart, d>> : cart \in PricedCarts, d \in Deliveries}

Body(c, items, dt, da, total) ==
    [customerId |-> c, items |-> items, deliveryType |-> dt,
     deliveryArea |-> da, total |-> total, status |-> ""]

\* a request that names the status of the order it creates
WithStatus(body, status) == [body EXCEPT !.status = status]

\* what CheckoutDialog posts for a cart: the total is computed by the client
CheckoutBody(c, cart, d) ==
    WithStatus(
        Body(c, cart, d[1], d[2],
             <<getTotalPrice(cart)
                 + getDeliveryFeeForArea(d[1], d[2], getTotalPrice(cart))>>),
        "processing")

\* bodies that fail a check of createOrder
BadBodies ==
    {Body("", <<Item("p1", "v1", 1, 10000)>>, "pickup", "", <<>>),
     Body("c0", <<>>, "pickup", "", <<>>),
     Body("c0", <<Item("p1", "v1", 0, 10000)>>, "pickup", "", <<>>),
     Body("c0", <<Item("p1", "v1", -1, 10000)>>, "pickup", "", <<>>),
     Body("c0", <<Item("p1", "v1", 1, 0)>>, "pickup", "", <<>>),
     Body("c0", <<Item("p1", "v1", 1, -5000)>>, "pickup", "", <<>>),
     Body("c0", <<Item("px", "", 1, 10000)>>, "pickup", "", <<>>),
     Body("c0", <<Item("p1", "vx", 1, 10000)>>, "pickup", "", <<>>),
     Body("c0", <<Item("p1", "v2", 1, 10000),
                  Item("", "", 1, 10000)>>, "pickup", "", <<>>),
     Body("cx", <<Item("p1", "v1", 1, 10000)>>, "pickup", "", <<>>)}

\* bodies posted by the order form and other callers of the REST interface:
\* the total is absent or the sum of the lines
ApiBodies ==
    {Body("c0", cart, d[1], d[2], total) :
        cart \in {<<Item("p1", "v1", q, 10000)>> : q \in 1..MaxQty},
        d \in Deliveries \cup {<<"", "">>},
        total \in {<<>>, <<10000>>}}
    \cup BadBodies

NoRow == [price |-> 0, variants |-> <<>>, total_stock |-> 0,
          category_id |-> ""]
NoBody == Body("", <<>>, "", "", <<>>)

IdleReq ==
    [pc |-> "idle", body |-> NoBody, i |-> 0, product |-> NoRow,
     status |-> 0, error |-> NoError, customer |-> "", writes |-> 0,
     before |-> <<>>, seen |-> NoRow, adminAt |-> 0, orderAt |-> 0,
     dialog |-> 0, run |-> 0, attempt |-> 0, client |-> ""]

\* the ids the store gives to the customer rows posted from a slot: the
\* first call of apiCall and its retries
CustomerIds(r) ==
    IF r = 1 THEN <<"c1", "c1r", "c1rr">> ELSE <<"c2", "c2r", "c2rr">>

CustomerOf(r) == CustomerIds(r)[1]

\* the browsers, each with one cart and one CheckoutDialog
Dialogs == {1, 2}

\* the dialog is open on its form, the cart is not known yet
DialogOpen ==
    [open |-> TRUE, isSubmitting |-> FALSE, orderSuccess |-> FALSE,
     items |-> <<>>]

\* the phone typed into the form, when the checkout does not say
DefaultPhone == "33000001"

\* a checkout is a cart and a delivery choice, with or without a phone
PhoneOf(co) == IF Len(co) = 3 THEN co[3] ELSE DefaultPhone

\* const maxRetries = 2
maxRetries == 2

\* an operation of the administrator: its name, the row it names, its
\* request and the status it was answered with
Op(op, id, arg, status) == [op |-> op, id |-> id, arg |-> arg, status |-> status]
NoOp == Op("", "", [none |-> TRUE], 0)

\* the server processes
Boots == {1, 2}
BootOff == [pc |-> "off", lib |-> ""]

----------------------------------------------------------------------------
(* Initial state: a catalogue of one product with two variants and one     *)
(* product without variants, one registered customer, no orders.           *)

Init ==
    /\ \E a \in 0..MaxStock, b \in 0..MaxStock, c \in 0..MaxStock :
         products =
           [p \in {"p1", "p2"} |->
              IF p = "p1"
              THEN [price |-> 10000,
                    variants |-> <<[id |-> "v1", stock |-> a],
                                   [id |-> "v2", stock |-> b]>>,
                    total_stock |-> a + b,
                    category_id |-> "cat1"]
              ELSE [price |-> 5000, variants |-> <<>>, total_stock |-> c,
                    category_id |-> ""]]
    /\ customers = [c \in {"c0"} |-> [phone |-> "33000000"]]
    /\ orders = <<>>
    /\ req = [r \in Slots |-> IdleReq]
    /\ route \in Routes
    /\ adminOps = 0
    /\ categories = {"cat1", "cat2"}
    /\ admin_users = <<>>
    /\ fallbackAdminUser = [b \in Boots |-> <<>>]
    /\ startup = [b \in Boots |-> BootOff]
    /\ accepted = <<>>
    /\ last = NoOp
    /\ dialog = [d \in Dialogs |-> DialogOpen]

----------------------------------------------------------------------------
(* POST /api/orders: createOrder, split at its awaits *)

Respond(r, status, error) ==
    [req[r] EXCEPT !.pc = "responded", !.status = status, !.error = error]

\* the synchronous head of createOrder, up to the first await
EntryError(rt, body) ==
    IF body.customerId = "" THEN Err("MissingCustomer")
    ELSE IF body.items = <<>> THEN Err("EmptyItems")
    ELSE IF rt = "part_011" THEN FirstFieldError(body.items)
    ELSE NoError

\* the request slot r once the handler has taken the body in
Entered(r, body, customer) ==
    LET err == EntryError(route, body) IN
    IF err # NoError
    THEN [Respond(r, 400, err) EXCEPT !.body = body, !.customer = customer]
    ELSE [req[r] EXCEPT !.pc = "validate", !.body = body, !.i = 1,
                        !.customer = customer, !.before = products,
                        !.adminAt = adminOps]

Entry(r, body, customer) ==
    req' = [req EXCEPT ![r] = Entered(r, body, customer)]

\* the error found on item i by the validation loop, NoError if none
ValidateError(rt, item, rows) ==
    IF rt = "orders.ts" /\ FieldError(item) # NoError THEN FieldError(item)
    ELSE StockError(item, rows)

\* where the handler goes after item i passed validation
AfterValidate(i, n) == IF i < n THEN "validate" ELSE "create"

\* customerDb.create: a new row under a new id, whatever the table holds
Inserted(rows, id, phone) ==
    [c \in DOMAIN rows \cup {id} |->
        IF c = id THEN [phone |-> phone] ELSE rows[c]]

\* the place-order button of dialog d is shown and enabled
CanPlace(d) ==
    /\ dialog[d].open
    /\ ~dialog[d].orderSuccess
    /\ ~dialog[d].isSubmitting

\* handlePlaceOrder in dialog d, up to the answer of its first call: POST
\* /api/customers inserts a new row; the order will be posted in slot r
Place(d, r, checkouts) ==
    /\ req[r].pc = "idle"
    /\ CanPlace(d)
    /\ \E co \in checkouts :
         /\ req' = [req EXCEPT ![r] =
                      [@ EXCEPT !.pc = "checkout",
                                !.body = CheckoutBody(CustomerOf(r),
                                                      co[1], co[2]),
                                !.customer = CustomerOf(r),
                                !.dialog = d, !.run = r,
                                !.client = "waiting"]]
         /\ customers' = Inserted(customers, CustomerOf(r), PhoneOf(co))
         /\ dialog' = [dialog EXCEPT ![d] =
                         [@ EXCEPT !.isSubmitting = TRUE, !.items = co[1]]]
    /\ UNCHANGED <<products, orders, route, adminOps,
                 categories, last, auth>>

\* a checkout from the browser that shares its number with the slot
handlePlaceOrder(r, checkouts) == Place(r, r, checkouts)

\* handlePlaceOrder when POST /api/customers is refused: the catch block
\* and the finally block run, no order is posted
handlePlaceOrderRefused(d, checkouts) ==
    /\ CanPlace(d)
    /\ \E co \in checkouts :
         dialog' = [dialog EXCEPT ![d] =
                      [@ EXCEPT !.isSubmitting = FALSE, !.items = co[1]]]
    /\ UNCHANGED <<products, customers, orders, req, route, adminOps,
                 categories, last, auth>>

\* apiCall, around POST /api/customers: the answer did not come in time or
\* the connection broke after the row was inserted; the call is sent
\* again and the store inserts one more row
createCustomerRetry(r) ==
    /\ req[r].pc = "checkout"
    /\ req[r].client = "waiting"
    /\ \E n \in 1..maxRetries :
         /\ req[r].customer = CustomerIds(r)[n]
         /\ customers' = Inserted(customers, CustomerIds(r)[n + 1],
                                  customers[req[r].customer].phone)
         /\ req' = [req EXCEPT ![r] =
                      [@ EXCEPT !.customer = CustomerIds(r)[n + 1],
                                !.body = [@ EXCEPT !.customerId =
                                                     CustomerIds(r)[n + 1]]]]
    /\ UNCHANGED <<products, orders, route, adminOps,
                 categories, last, auth, dialog>>

\* apiCall, around POST /api/orders: the request in slot r was sent and
\* its answer did not come in time, or the connection broke; the call is
\* sent again and is served in slot q, the first request runs on
apiCallRetry(r, q) ==
    /\ req[r].client = "waiting"
    /\ req[r].pc \notin {"idle", "checkout"}
    /\ req[r].attempt < maxRetries
    /\ q # r
    /\ req[q].pc = "idle"
    /\ req' = [req EXCEPT
                 ![r] = [@ EXCEPT !.client = "aborted"],
                 ![q] = [Entered(q, req[r].body, req[r].customer) EXCEPT
                            !.dialog = req[r].dialog, !.run = req[r].run,
                            !.attempt = req[r].attempt + 1,
                            !.client = "waiting"]]
    /\ UNCHANGED <<products, customers, orders, route, adminOps,
                 categories, last, auth, dialog>>

\* handlePlaceOrder, after the answer to POST /api/orders: the success
\* path on 201, the catch block otherwise, the finally block in both
handlePlaceOrderEnd(r) ==
    /\ req[r].client = "waiting"
    /\ req[r].pc = "responded"
    /\ req' = [req EXCEPT ![r] = [@ EXCEPT !.client = "done"]]
    /\ dialog' = [dialog EXCEPT ![req[r].dialog] =
                    IF req[r].status = 201
                    THEN [@ EXCEPT !.orderSuccess = TRUE, !.items = <<>>,
                                   !.isSubmitting = FALSE]
                    ELSE [@ EXCEPT !.isSubmitting = FALSE]]
    /\ UNCHANGED <<products, customers, orders, route, adminOps,
                 categories, last, auth>>

\* the dialog is closed: onOpenChange of either screen
handleClose(d) ==
    /\ dialog[d].open
    /\ dialog' = [dialog EXCEPT ![d] = [@ EXCEPT !.open = FALSE]]
    /\ UNCHANGED <<products, customers, orders, req, route, adminOps,
                 categories, last, auth>>

\* the dialog is opened again: the effect on [open, orderSuccess] resets
\* the form and isSubmitting unless the success screen is up
handleCheckout(d) ==
    /\ ~dialog[d].open
    /\ dialog' = [dialog EXCEPT ![d] =
                    IF dialog[d].orderSuccess
                    THEN [@ EXCEPT !.open = TRUE]
                    ELSE [@ EXCEPT !.open = TRUE, !.isSubmitting = FALSE]]
    /\ UNCHANGED <<products, customers, orders, req, route, adminOps,
                 categories, last, auth>>

\* handlePlaceOrder, second call: POST /api/orders with the new customer
createOrderCheckout(r) ==
    /\ req[r].pc = "checkout"
    /\ Entry(r, req[r].body, req[r].customer)
    /\ UNCHANGED <<products, customers, orders, route, adminOps,
                 categories, last, auth, dialog>>

\* POST /api/orders from the order form or any other caller
createOrderApi(r, bodies) ==
    /\ req[r].pc = "idle"
    /\ \E body \in bodies : Entry(r, body, "")
    /\ UNCHANGED <<products, customers, orders, route, adminOps,
                 categories, last, auth, dialog>>

\* one turn of the validation loop: productDb.getById and the checks on it
createOrderValidate(r) ==
    /\ req[r].pc = "validate"
    /\ LET body == req[r].body
           i == req[r].i
           err == ValidateError(route, body.items[i], products)
       IN  req' = [req EXCEPT ![r] =
                     IF err # NoError THEN Respond(r, 400, err)
                     ELSE [@ EXCEPT
                              !.pc = AfterValidate(i, Len(body.items)),
                              !.i = IF i < Len(body.items) THEN i + 1 ELSE 1,
                              !.seen = products[body.items[i].productId]]]
    /\ UNCHANGED <<products, customers, orders, route, adminOps,
                 categories, last, auth, dialog>>

\* the row orderDb.create inserts
OrderRow(rt, body, id, r) ==
    [id |-> id,
     customerId |-> body.customerId,
     items |-> body.items,
     total |-> Decimal2(FinalTotal(rt, body)),
     status |-> OrElse(body.status, "processing"),
     deliveryType |-> OrElse(body.deliveryType, "delivery"),
     deliveryArea |-> OrElse(body.deliveryArea, "sitra"),
     req |-> r]

\* orders.status CHECK (status IN (...))
OrderStatuses == {"processing", "ready", "delivered", "picked-up"}

\* variant: the status column has no CHECK
StatusCheckNone(status) == TRUE

StatusCheck(status) == status \in OrderStatuses

\* orderDb.create; orders.customer_id REFERENCES customers(id)
createOrderInsert(r) ==
    /\ req[r].pc = "create"
    /\ IF /\ req[r].body.customerId \in DOMAIN customers
          /\ StatusCheck(OrElse(req[r].body.status, "processing"))
       THEN /\ orders' = Append(orders,
                           OrderRow(route, req[r].body, Len(orders) + 1, r))
            /\ req' = [req EXCEPT ![r] =
                         [@ EXCEPT !.pc = "decRead", !.i = 1,
                                   !.writes = @ + 1,
                                   !.orderAt = Len(orders) + 1]]
       ELSE /\ orders' = orders
            /\ req' = [req EXCEPT ![r] =
                         [Respond(r, 500, Err("StorageError")) EXCEPT
                             !.writes = @ + 1]]
    /\ UNCHANGED <<products, customers, route, adminOps,
                 categories, last, auth, dialog>>

\* variant: the next line is checked against the stock only when its turn
\* in the decrement loop comes
AfterItemLazy(r, i) ==
    IF i < Len(req[r].body.items)
    THEN IF StockError(req[r].body.items[i + 1], products) # NoError
         THEN Respond(r, 400, StockError(req[r].body.items[i + 1], products))
         ELSE [req[r] EXCEPT !.pc = "decRead", !.i = i + 1]
    ELSE [Respond(r, 201, NoError) EXCEPT !.i = i]

\* variant: the write is refused when the stock no longer covers the line
AfterItemConditional(r, i) ==
    IF StockError(req[r].body.items[i], products) # NoError
    THEN Respond(r, 400, StockError(req[r].body.items[i], products))
    ELSE IF i < Len(req[r].body.items)
         THEN [req[r] EXCEPT !.pc = "decRead", !.i = i + 1]
         ELSE [Respond(r, 201, NoError) EXCEPT !.i = i]

\* the handler's position after the decrement of item i
AfterItem(r, i) ==
    IF i < Len(req[r].body.items)
    THEN [req[r] EXCEPT !.pc = "decRead", !.i = i + 1]
    ELSE [Respond(r, 201, NoError) EXCEPT !.i = i]

\* decrement loop, first await: productDb.getById
createOrderDecRead(r) ==
    /\ req[r].pc = "decRead"
    /\ LET item == req[r].body.items[req[r].i] IN
       req' = [req EXCEPT ![r] =
                 IF item.productId \in DOMAIN products
                 THEN [@ EXCEPT !.pc = "decWrite",
                                !.product = products[item.productId]]
                 ELSE AfterItem(r, req[r].i)]
    /\ UNCHANGED <<products, customers, orders, route, adminOps,
                 categories, last, auth, dialog>>

\* decrement loop, second await: productDb.update with the computed stock
createOrderDecWrite(r) ==
    /\ req[r].pc = "decWrite"
    /\ LET item == req[r].body.items[req[r].i] IN
       /\ products' = [products EXCEPT ![item.productId] =
                          DecrementedRow(@, req[r].product, item)]
       /\ req' = [req EXCEPT ![r] =
                    [AfterItem(r, req[r].i) EXCEPT !.writes = @ + 1]]
    /\ UNCHANGED <<customers, orders, route, adminOps,
                 categories, last, auth, dialog>>

createOrderStep(r) ==
    \/ createOrderCheckout(r)
    \/ createOrderValidate(r)
    \/ createOrderInsert(r)
    \/ createOrderDecRead(r)
    \/ createOrderDecWrite(r)

InFlight(r) == req[r].pc \notin {"idle", "responded"}

----------------------------------------------------------------------------
(* Catalogue administration *)

\* the stock fields of a product request: total_stock, stock, totalStock
StockIn(total_stock, stock, totalStock) ==
    [total_stock |-> total_stock, stock |-> stock, totalStock |-> totalStock]

\* parseInt(x) || ...: the number, or 0 (falsy) when the field is absent
ParseInt(x) == IF x = <<>> THEN 0 ELSE x[1]

\* parseInt(total_stock) || parseInt(stock) || parseInt(totalStock) || 0
FirstStock(stockIn) ==
    IF ParseInt(stockIn.total_stock) # 0 THEN ParseInt(stockIn.total_stock)
    ELSE IF ParseInt(stockIn.stock) # 0 THEN ParseInt(stockIn.stock)
    ELSE ParseInt(stockIn.totalStock)

\* POST /api/products
createProduct(id, price, variants, stockIn) ==
    /\ adminOps < MaxAdminOps
    /\ id \notin DOMAIN products
    /\ LET totalStock == IF variants # <<>> THEN SumStock(variants)
                         ELSE FirstStock(stockIn)
       IN  products' = [p \in DOMAIN products \cup {id} |->
                          IF p = id
                          THEN [price |-> price, variants |-> variants,
                                total_stock |-> totalStock,
                                category_id |-> ""]
                          ELSE products[p]]
    /\ adminOps' = adminOps + 1
    /\ last' = Op("createProduct", id,
                  [price |-> price, variants |-> variants, stock |-> stockIn],
                  201)
    /\ UNCHANGED <<customers, orders, req, route, categories, auth, dialog>>

\* the patch updateProduct hands to productDb.update: the request, with
\* total_stock set from the variants or from an alias
UpdatePatch(updates) ==
    IF updates.variants # <<>> /\ updates.variants[1] # <<>>
    THEN [updates EXCEPT !.total_stock = <<SumStock(updates.variants[1])>>]
    ELSE IF updates.totalStock # <<>>
    THEN [updates EXCEPT !.total_stock = updates.totalStock]
    ELSE IF updates.stock # <<>>
    THEN [updates EXCEPT !.total_stock = updates.stock]
    ELSE updates

\* the store refuses a patch with a key that names no column of products
KnownColumns(patch) == patch.stock = <<>> /\ patch.totalStock = <<>>

\* PUT /api/products/:id
updateProduct(id, updates) ==
    /\ adminOps < MaxAdminOps
    /\ id \in DOMAIN products
    /\ LET patch == UpdatePatch(updates) IN
       IF KnownColumns(patch)
       THEN /\ products' = [products EXCEPT ![id] = ApplyPatch(@, patch)]
            /\ last' = Op("updateProduct", id, updates, 200)
       ELSE /\ products' = products
            /\ last' = Op("updateProduct", id, updates, 500)
    /\ adminOps' = adminOps + 1
    /\ UNCHANGED <<customers, orders, req, route, categories, auth, dialog>>

\* variant: the orders that hold the product go with it
deleteProductCascade(id) ==
    /\ adminOps < MaxAdminOps
    /\ products' = [p \in DOMAIN products \ {id} |-> products[p]]
    /\ orders' = SelectSeq(orders,
                    LAMBDA o : \A i \in 1..Len(o.items) :
                                  o.items[i].productId # id)
    /\ adminOps' = adminOps + 1
    /\ last' = Op("deleteProduct", id, [none |-> TRUE], 204)
    /\ UNCHANGED <<customers, req, route, categories, auth, dialog>>

\* DELETE /api/products/:id
deleteProduct(id) ==
    /\ adminOps < MaxAdminOps
    /\ products' = [p \in DOMAIN products \ {id} |-> products[p]]
    /\ adminOps' = adminOps + 1
    /\ last' = Op("deleteProduct", id, [none |-> TRUE], 204)
    /\ UNCHANGED <<customers, orders, req, route, categories, auth, dialog>>

\* variant: the foreign key is declared ON DELETE CASCADE
OnDeleteCascade(rows, id) ==
    [p \in {q \in DOMAIN rows : rows[q].category_id # id} |-> rows[p]]

\* products.category_id REFERENCES categories(id) ON DELETE SET NULL
OnDeleteSetNull(rows, id) ==
    [p \in DOMAIN rows |->
        IF rows[p].category_id = id
        THEN [rows[p] EXCEPT !.category_id = ""]
        ELSE rows[p]]

\* DELETE /api/categories/:id: categoryDb.delete, answered 204
deleteCategory(id) ==
    /\ adminOps < MaxAdminOps
    /\ categories' = categories \ {id}
    /\ products' = OnDeleteSetNull(products, id)
    /\ adminOps' = adminOps + 1
    /\ last' = Op("deleteCategory", id, [none |-> TRUE], 204)
    /\ UNCHANGED <<customers, orders, req, route, auth, dialog>>

Patch(price, variants, total_stock) ==
    [price |-> price, variants |-> variants, total_stock |-> total_stock,
     stock |-> <<>>, totalStock |-> <<>>]

VariantLists ==
    {<<>>} \cup {<<[id |-> "v1", stock |-> s]>> : s \in {1, MaxStock}}

ProductUpdates ==
    {Patch(<<pr>>, <<>>, <<>>) : pr \in Prices}
    \cup {Patch(<<>>, <<vs>>, <<>>) : vs \in VariantLists}
    \cup {Patch(<<>>, <<>>, <<MaxStock>>)}
    \cup {Patch(<<>>, <<vs>>, <<0>>) : vs \in VariantLists}

Admin ==
    \/ \E vs \in VariantLists, n \in {0, MaxStock} :
          createProduct("p3", 5000, vs, StockIn(<<n>>, <<>>, <<>>))
    \/ \E id \in {"p1", "p2"}, u \in ProductUpdates : updateProduct(id, u)
    \/ \E id \in {"p1", "p2", "p3"} : deleteProduct(id)
    \/ \E id \in {"cat1", "cat2"} : deleteCategory(id)

----------------------------------------------------------------------------
(* Order administration *)

\* the position of the order with this id in the table, 0 if there is none
OrderIndex(id) ==
    IF \E k \in 1..Len(orders) : orders[k].id = id
    THEN CHOOSE k \in 1..Len(orders) : orders[k].id = id
    ELSE 0

\* variant: a total sent along with the items is kept
OrderUpdatesTrusting(updates) ==
    IF updates.items # <<>> /\ updates.total = <<>>
    THEN [updates EXCEPT !.total = <<ItemsTotal(updates.items[1])>>]
    ELSE updates

\* updateOrder: the patch handed to orderDb.update
OrderUpdates(updates) ==
    IF updates.items # <<>>
    THEN [updates EXCEPT !.total = <<ItemsTotal(updates.items[1])>>]
    ELSE updates

\* variant: the columns the patch does not name are written as empty
dbUpdatesWhole(row, patch) ==
    [row EXCEPT
        !.items = IF patch.items # <<>> THEN patch.items[1] ELSE <<>>,
        !.total = IF patch.total # <<>> THEN Decimal2(patch.total[1]) ELSE 0,
        !.status = IF patch.status # "" THEN patch.status ELSE @]

\* orderDb.update: the columns of the patch that reach the row
dbUpdates(row, patch) ==
    [row EXCEPT
        !.items = IF patch.items # <<>> THEN patch.items[1] ELSE @,
        !.total = IF patch.total # <<>> THEN Decimal2(patch.total[1]) ELSE @,
        !.status = IF patch.status # "" THEN patch.status ELSE @]

\* PUT /api/orders/:id
updateOrder(id, updates) ==
    /\ adminOps < MaxAdminOps
    /\ LET k == OrderIndex(id)
           patch == OrderUpdates(updates)
           stored == /\ k # 0
                     /\ patch.status = "" \/ StatusCheck(patch.status)
       IN  /\ orders' = IF stored
                        THEN [orders EXCEPT ![k] = dbUpdates(@, patch)]
                        ELSE orders
           /\ last' = Op("updateOrder", "",
                         [order |-> id, updates |-> updates],
                         IF stored THEN 200 ELSE 500)
    /\ adminOps' = adminOps + 1
    /\ UNCHANGED <<products, customers, req, route, categories, auth, dialog>>

OrderPatch(items, total, status) ==
    [items |-> items, total |-> total, status |-> status]

\* the patches of the order form and of any other caller
OrderPatches ==
    {OrderPatch(items, total, status) :
        items \in {<<>>, << <<>> >>, << <<Item("p1", "v1", 2, 5000)>> >>},
        total \in {<<>>, <<7000>>},
        status \in {"", "ready", "shipped"}}
    \ {OrderPatch(<<>>, <<>>, "")}

----------------------------------------------------------------------------
(* Customer administration *)

\* variant: the orders of a deleted customer stay
OnDeleteKeep(rows, id) == rows

\* orders.customer_id REFERENCES customers(id) ON DELETE CASCADE
OnDeleteCascadeOrders(rows, id) ==
    SelectSeq(rows, LAMBDA o : o.customerId # id)

\* DELETE /api/customers/:id: customerDb.delete, one statement of the store
deleteCustomer(id) ==
    /\ adminOps < MaxAdminOps
    /\ customers' = [c \in DOMAIN customers \ {id} |-> customers[c]]
    /\ orders' = OnDeleteCascadeOrders(orders, id)
    /\ adminOps' = adminOps + 1
    /\ last' = Op("deleteCustomer", id, [none |-> TRUE], 204)
    /\ UNCHANGED <<products, req, route, categories, auth, dialog>>

----------------------------------------------------------------------------
(* Administrator sign-in.  admin-db.ts exists in two versions: "plain"     *)
(* reads and writes the admin_users table only; "fallback" keeps an        *)
(* in-memory admin that it uses whenever the store answers with an error.  *)
(* A call of the store either succeeds or answers with an error.           *)

AdminLibs == {"plain", "fallback"}
Passwords == {"short", "password", "azhar2311", "secret7"}

\* bcrypt.hash and bcrypt.compare
Hash(password) == [alg |-> "bcrypt", of |-> password]
Compare(password, hash) == hash.alg = "bcrypt" /\ hash.of = password

AdminRow(id, password) ==
    [id |-> id, email |-> "admin@azharstore.com",
     password_hash |-> Hash(password)]

\* supabase-setup.sql: INSERT ... ON CONFLICT (email) DO NOTHING; the hash
\* in the script is the bcrypt hash of "password"
supabaseSetupSql ==
    /\ \A k \in 1..Len(admin_users) :
          admin_users[k].email # "admin@azharstore.com"
    /\ admin_users' = Append(admin_users, AdminRow("sql", "password"))
    /\ accepted' = <<"password">>
    /\ last' = Op("supabaseSetupSql", "", [none |-> TRUE], 0)
    /\ UNCHANGED <<products, customers, orders, req, route, adminOps,
                   categories, fallbackAdminUser, startup, dialog>>

\* a server process loads admin-db.ts.  The fallback version calls
\* initializeDefaultAdmin() before `const adminDb` is initialized: its
\* `await getAdminUser()` rejects and the function continues in its catch
\* block.
loadAdminDb(b, lib) ==
    /\ startup[b].pc = "off"
    /\ \A c \in Boots : startup[c].lib \in {"", lib}
    /\ startup' = [startup EXCEPT ![b] =
                     [pc |-> IF lib = "fallback" THEN "catch" ELSE "up",
                      lib |-> lib]]
    /\ last' = Op("loadAdminDb", "", [boot |-> b], 0)
    /\ UNCHANGED <<products, customers, orders, req, route, adminOps,
                   categories, admin_users, fallbackAdminUser, accepted, dialog>>

\* the catch block of initializeDefaultAdmin, after its await bcrypt.hash
initializeDefaultAdmin(b) ==
    /\ startup[b].pc = "catch"
    /\ fallbackAdminUser' = [fallbackAdminUser EXCEPT ![b] =
                               <<AdminRow("mem", "azhar2311")>>]
    /\ startup' = [startup EXCEPT ![b].pc = "up"]
    /\ last' = Op("initializeDefaultAdmin", "", [boot |-> b], 0)
    /\ UNCHANGED <<products, customers, orders, req, route, adminOps,
                   categories, admin_users, accepted, dialog>>

\* adminDb.getAdminUser: .limit(1).single(); err says the store answered
\* with an error
getAdminUser(lib, b, err) ==
    IF err
    THEN IF lib = "fallback"
         THEN [threw |-> FALSE, admin |-> fallbackAdminUser[b]]
         ELSE [threw |-> TRUE, admin |-> <<>>]
    ELSE [threw |-> FALSE,
          admin |-> IF admin_users = <<>> THEN <<>> ELSE <<admin_users[1]>>]

\* adminDb.verifyPassword: "true", "false", or "throw" for a rejection
verifyPassword(lib, b, password, err) ==
    LET got == getAdminUser(lib, b, err) IN
    IF got.threw THEN IF lib = "fallback" THEN "false" ELSE "throw"
    ELSE IF got.admin = <<>> THEN "false"
    ELSE IF Compare(password, got.admin[1].password_hash) THEN "true"
    ELSE "false"

\* UPDATE admin_users SET password_hash = ... WHERE id = ...
SetHash(rows, id, password) ==
    [k \in 1..Len(rows) |->
        IF rows[k].id = id
        THEN [rows[k] EXCEPT !.password_hash = Hash(password)]
        ELSE rows[k]]

\* what updatePassword leaves behind and returns
Updated(result, users, memory) ==
    [result |-> result, users |-> users, memory |-> memory]

\* adminDb.updatePassword
updatePassword(lib, b, newPassword, readErr, writeErr) ==
    LET got == getAdminUser(lib, b, readErr)
        memory == fallbackAdminUser[b]
        kept == Updated("false", admin_users, memory)
    IN  IF got.threw THEN Updated("throw", admin_users, memory)
        ELSE IF got.admin = <<>> THEN kept
        ELSE IF writeErr
             THEN IF lib = "plain"
                  THEN Updated("throw", admin_users, memory)
                  ELSE IF memory # <<>>
                       THEN Updated("true", admin_users,
                                    <<[memory[1] EXCEPT
                                         !.password_hash = Hash(newPassword)]>>)
                       ELSE kept
             ELSE Updated("true",
                          SetHash(admin_users, got.admin[1].id, newPassword),
                          memory)

\* the process serves requests
Serving(b) == startup[b].pc \in {"catch", "up"}

\* POST /api/admin/login
handleAdminLogin(b, password, err) ==
    /\ Serving(b)
    /\ LET isValid == verifyPassword(startup[b].lib, b, password, err)
           status == IF Len(password) < 1 THEN 400
                     ELSE IF isValid = "true" THEN 200
                     ELSE IF isValid = "false" THEN 401
                     ELSE 500
       IN  last' = Op("login", "",
                      [boot |-> b, password |-> password, errors |-> <<err>>],
                      status)
    /\ UNCHANGED <<products, customers, orders, req, route, adminOps,
                   categories, auth, dialog>>

\* POST /api/admin/change-password
handleChangePassword(b, currentPassword, newPassword, errs) ==
    /\ Serving(b)
    /\ LET lib == startup[b].lib
           parsed == Len(currentPassword) >= 1 /\ Len(newPassword) >= 6
           isValid == verifyPassword(lib, b, currentPassword, errs[1])
           upd == updatePassword(lib, b, newPassword, errs[2], errs[3])
           writes == parsed /\ isValid = "true"
           status == IF ~parsed THEN 400
                     ELSE IF isValid = "throw" THEN 500
                     ELSE IF isValid = "false" THEN 401
                     ELSE IF upd.result = "true" THEN 200
                     ELSE 500
       IN  /\ admin_users' = IF writes THEN upd.users ELSE admin_users
           /\ fallbackAdminUser' =
                 IF writes
                 THEN [fallbackAdminUser EXCEPT ![b] = upd.memory]
                 ELSE fallbackAdminUser
           /\ accepted' = IF status = 200 THEN <<newPassword>> ELSE accepted
           /\ last' = Op("changePassword", "",
                         [boot |-> b, currentPassword |-> currentPassword,
                          newPassword |-> newPassword, errors |-> errs],
                         status)
    /\ UNCHANGED <<products, customers, orders, req, route, adminOps,
                   categories, startup, dialog>>

----------------------------------------------------------------------------
(* Specifications *)

\* the checkouts and bodies of the requests that run concurrently
RacingCheckouts ==
    {<<cart, Pickup>> : cart \in StockCarts}
    \cup {<<<<Item("p1", "v1", 1, 10000), Item("p1", v, 1, 10000)>>, Pickup>> :
            v \in {"v1", "v2"}}

RacingBodies ==
    {Body("c0", <<Item("p1", "v1", 0, 10000)>>, "pickup", "", <<>>),
     Body("c0", <<Item("p1", "vx", 1, 10000)>>, "pickup", "", <<>>)}

\* two requests in any interleaving
Next ==
    \E r \in Slots :
        \/ handlePlaceOrder(r, RacingCheckouts)
        \/ createOrderApi(r, RacingBodies)
        \/ createOrderStep(r)

Spec == Init /\ [][Next]_vars

\* requests served one after the other, in the order of their slots
Alone(r) ==
    /\ \A q \in Slots \ {r} : ~InFlight(q)
    /\ \A q \in Slots : q < r => req[q].pc = "responded"

NextSeq ==
    \E r \in Slots :
        /\ Alone(r)
        /\ \/ handlePlaceOrder(r, Checkouts)
           \/ createOrderApi(r, ApiBodies)
           \/ createOrderStep(r)

SpecSeq == Init /\ [][NextSeq]_vars

\* the orders placed around the administrator's changes
AdminCheckouts ==
    {<<<<Item("p1", "v1", 1, 10000)>>, Pickup>>,
     <<<<Item("p2", "", MaxQty, 5000)>>, <<"delivery", "sitra">>>>}

\* the administrator and the storefront, one operation at a time
NextAdmin ==
    \/ /\ \A q \in Slots : ~InFlight(q)
       /\ Admin
    \/ \E r \in Slots :
          /\ Alone(r)
          /\ \/ handlePlaceOrder(r, AdminCheckouts)
             \/ createOrderStep(r)

SpecAdmin == Init /\ [][NextAdmin]_vars

----------------------------------------------------------------------------
(* Storage failures *)

\* variant: the catch block answers as the validation does
CatchAsValidation(r) == Respond(r, 400, Err("StorageError"))

\* the catch block of createOrder: the answer to a rejected storage call
Catch(r) == Respond(r, 500, Err("StorageError"))

\* an awaited storage call of createOrder rejects: productDb.getById in
\* either loop, orderDb.create, or productDb.update
createOrderFails(r) ==
    /\ req[r].pc \in {"validate", "create", "decRead", "decWrite"}
    /\ req' = [req EXCEPT ![r] = Catch(r)]
    /\ UNCHANGED <<products, customers, orders, route, adminOps,
                 categories, last, auth, dialog>>

FaultCheckouts ==
    {<<cart, Pickup>> : cart \in StockCarts \cup TwoLineCarts}

\* requests served one after the other over a storage that can fail
NextFault ==
    \E r \in Slots :
        /\ Alone(r)
        /\ \/ handlePlaceOrder(r, FaultCheckouts)
           \/ createOrderStep(r)
           \/ createOrderFails(r)

SpecFault == Init /\ [][NextFault]_vars

\* the orders the back office works on
OfficeCheckouts ==
    {<<<<Item("p1", "v1", 1, 10000)>>, d>> :
        d \in {Pickup, <<"delivery", "other">>}}

\* the orders added with the order form, and by a caller that names a
\* status the store does not know or a customer the store does not hold
OfficeBodies ==
    {WithStatus(Body("c0", <<Item("p1", "v1", 1, 10000)>>, "pickup", "", <<>>),
                st) : st \in {"ready", "shipped"}}
    \cup {Body("cx", <<Item("p1", "v1", 1, 10000)>>, "pickup", "", <<>>)}

\* the storefront and the order desk, one operation at a time
NextOffice ==
    \/ /\ \A q \in Slots : ~InFlight(q)
       /\ \E id \in 1..2, u \in OrderPatches : updateOrder(id, u)
    \/ \E r \in Slots :
          /\ Alone(r)
          /\ \/ handlePlaceOrder(r, OfficeCheckouts)
             \/ createOrderApi(r, OfficeBodies)
             \/ createOrderStep(r)

SpecOffice == Init /\ [][NextOffice]_vars

CascadeCheckouts == {<<<<Item("p1", "v1", 1, 10000)>>, Pickup>>}

\* customers are deleted while their orders are being placed
NextCascade ==
    \/ \E id \in {"c0", "c1", "c2"} : deleteCustomer(id)
    \/ \E r \in Slots :
          \/ handlePlaceOrder(r, CascadeCheckouts)
          \/ createOrderStep(r)

SpecCascade == Init /\ [][NextCascade]_vars

\* the outcomes of the three calls of the store in a change of password:
\* at most one of them fails
StoreErrors ==
    {<<FALSE, FALSE, FALSE>>, <<TRUE, FALSE, FALSE>>,
     <<FALSE, TRUE, FALSE>>, <<FALSE, FALSE, TRUE>>}

\* the administrator's sign-in on either version of admin-db.ts, over a
\* store whose calls can fail
NextAuth ==
    \/ supabaseSetupSql
    \/ \E b \in Boots, lib \in AdminLibs : loadAdminDb(b, lib)
    \/ \E b \in Boots : initializeDefaultAdmin(b)
    \/ \E b \in Boots, p \in Passwords, err \in BOOLEAN :
          handleAdminLogin(b, p, err)
    \/ \E b \in Boots, cur \in Passwords, new \in Passwords,
          errs \in StoreErrors :
          handleChangePassword(b, cur, new, errs)

\* the catalogue plays no part in the sign-in: one catalogue is enough
InitAuth ==
    /\ Init
    /\ route = "orders.ts"
    /\ \A p \in DOMAIN products : products[p].total_stock = 0

SpecAuth == InitAuth /\ [][NextAuth]_vars

\* orders in each of the four statuses, for pickup and for delivery
StatusBodies ==
    {WithStatus(Body("c0", <<Item("p1", "v1", 1, 10000)>>, d[1], d[2], <<>>),
                st) :
        st \in OrderStatuses, d \in {Pickup, <<"delivery", "other">>}}

\* updateOrderStatus: a patch that holds the status only
StatusPatches == {OrderPatch(<<>>, <<>>, st) : st \in OrderStatuses}

\* the order desk changes the status of the orders it holds
NextStatus ==
    \/ /\ \A q \in Slots : ~InFlight(q)
       /\ \E id \in 1..2, u \in StatusPatches : updateOrder(id, u)
    \/ \E r \in Slots :
          /\ Alone(r)
          /\ \/ handlePlaceOrder(r, CascadeCheckouts)
             \/ createOrderApi(r, StatusBodies)
             \/ createOrderStep(r)

SpecStatus == Init /\ [][NextStatus]_vars

\* the stock of a product request, carried by none or one of the aliases,
\* or by two that disagree
CatalogStockIns ==
    {StockIn(<<>>, <<>>, <<>>), StockIn(<<0>>, <<MaxStock>>, <<>>)}
    \cup {StockIn(<<n>>, <<>>, <<>>) : n \in {0, MaxStock}}
    \cup {StockIn(<<>>, <<n>>, <<>>) : n \in {0, MaxStock}}
    \cup {StockIn(<<>>, <<>>, <<n>>) : n \in {0, MaxStock}}

\* the patches of the product form: variants absent, empty or given, and
\* the stock under any of its names
CatalogUpdates ==
    {[Patch(<<>>, vs, si.total_stock) EXCEPT
         !.stock = si.stock, !.totalStock = si.totalStock] :
        vs \in {<<>>, << <<>> >>, << <<[id |-> "v1", stock |-> 1]>> >>},
        si \in CatalogStockIns}
    \ {Patch(<<>>, <<>>, <<>>)}

\* the administrator creates and updates products
NextCatalog ==
    \/ \E vs \in VariantLists, si \in CatalogStockIns :
          createProduct("p3", 5000, vs, si)
    \/ \E id \in {"p1", "p2"}, u \in CatalogUpdates : updateProduct(id, u)

SpecCatalog == Init /\ [][NextCatalog]_vars

\* the phones typed into the checkout form
Phones == {"33000001", "33000002"}

\* the checkouts of customers who may share a phone
RetryCheckouts ==
    {<<cart, Pickup, ph>> :
        cart \in {<<Item("p1", "v1", 1, 10000)>>,
                  <<Item("p2", "", 1, 5000)>>},
        ph \in Phones}

\* checkouts over a connection that can time out or break: apiCall sends
\* the call again while the first request may still be served
NextRetry ==
    \E r \in Slots :
        \/ handlePlaceOrder(r, RetryCheckouts)
        \/ createCustomerRetry(r)
        \/ createOrderStep(r)
        \/ \E q \in Slots : apiCallRetry(r, q)
        \/ handlePlaceOrderEnd(r)

SpecRetry == Init /\ [][NextRetry]_vars

\* carts that the stock covers or not
DialogCheckouts ==
    {<<<<Item("p1", "v1", q, 10000)>>, Pickup>> : q \in {1, MaxQty}}

\* the browsers: their dialogs are closed and opened while orders are
\* being placed
NextDialog ==
    \E d \in Dialogs :
        \/ \E r \in Slots : Place(d, r, DialogCheckouts)
        \/ handlePlaceOrderRefused(d, DialogCheckouts)
        \/ \E r \in Slots : createOrderStep(r)
        \/ \E r \in Slots : handlePlaceOrderEnd(r)
        \/ handleClose(d)
        \/ handleCheckout(d)

SpecDialog == Init /\ [][NextDialog]_vars

----------------------------------------------------------------------------
(* Properties *)

RECURSIVE LineSumTo(_, _)
LineSumTo(items, n) ==
    IF n = 0 THEN 0
    ELSE items[n].price * items[n].quantity + LineSumTo(items, n - 1)

\* the sum over the lines of price x quantity
LineSum(items) == LineSumTo(items, Len(items))

RECURSIVE VariantSumTo(_, _)
VariantSumTo(variants, n) ==
    IF n = 0 THEN 0 ELSE variants[n].stock + VariantSumTo(variants, n - 1)

\* the sum of the stocks of a product's variants
VariantSum(variants) == VariantSumTo(variants, Len(variants))

\* the body of the request that created order k
BodyOf(k) == req[orders[k].req].body

\* the stock an item is checked against in a table
Available(rows, item) ==
    IF NamesVariant(item)
    THEN rows[item.productId].variants[
             FindVariant(rows[item.productId], item.variantId)].stock
    ELSE rows[item.productId].total_stock

Responded(r) == req[r].pc = "responded"
Succeeded(r) == Responded(r) /\ req[r].status = 201

\* no request after r has started
Latest(r) == \A q \in Slots : q > r => req[q].pc = "idle"

\* C1: the total stored on every created order is the sum of price x
\* quantity over its lines plus the delivery fee computed by the server, and
\* two requests that differ only in the submitted total store the same total.
C1_TotalRecomputed ==
    /\ \A k \in 1..Len(orders) :
          orders[k].total =
             LineSum(orders[k].items)
               + ServerDeliveryFee(BodyOf(k).deliveryType)
    /\ \A j, k \in 1..Len(orders) :
          [BodyOf(j) EXCEPT !.total = <<>>] = [BodyOf(k) EXCEPT !.total = <<>>]
             => orders[j].total = orders[k].total

\* C2: every product with a non-empty variants list has total_stock equal
\* to the sum of its variants' stock, in every reachable state.
C2_TotalStockIsSum ==
    \A p \in DOMAIN products :
        products[p].variants # <<>>
           => products[p].total_stock = VariantSum(products[p].variants)

\* C3: a checkout that asks for more than the available stock is answered
\* with an insufficient-stock error naming the available and the requested
\* quantity, and leaves no new customer row, no new order row and every
\* stock value as it was.
C3_InsufficientStockLeavesNothing ==
    \A r \in Slots :
        /\ ( /\ Responded(r)
             /\ req[r].customer # ""
             /\ Len(req[r].body.items) = 1
             /\ req[r].body.items[1].quantity
                  > Available(req[r].before, req[r].body.items[1]) )
           => /\ req[r].status = 400
              /\ req[r].error =
                   [kind |-> "InsufficientStock",
                    available |->
                       Available(req[r].before, req[r].body.items[1]),
                    requested |-> req[r].body.items[1].quantity]
        /\ (Responded(r) /\ req[r].error.kind = "InsufficientStock")
           => /\ req[r].customer \notin DOMAIN customers
              /\ \A k \in 1..Len(orders) : orders[k].req # r
              /\ Latest(r) => products = req[r].before

\* C4: a request answered with a validation, invalid-reference or
\* insufficient-stock error (status 400) has executed neither orderDb.create
\* nor productDb.update.
C4_ValidateBeforeWrite ==
    \A r \in Slots :
        req[r].status = 400
           => /\ req[r].writes = 0
              /\ \A k \in 1..Len(orders) : orders[k].req # r
              /\ req[r].orderAt = 0

\* C4 happens: the second line of a cart failed the stock check
C4_Witness ==
    \E r \in Slots :
        /\ req[r].status = 400
        /\ req[r].error.kind = "InsufficientStock"
        /\ req[r].i = 2
        /\ \E q \in Slots \ {r} : req[q].writes > 0

\* the only line of a one-line request
Line(r) == req[r].body.items[1]

\* the item names a product, and a variant if any, that the table holds
ValidTarget(rows, item) ==
    /\ item.productId \in DOMAIN rows
    /\ NamesVariant(item) => FindVariant(rows[item.productId], item.variantId) # 0

\* C5: two valid orders placed one after the other for the same product or
\* variant, whose quantities together do not exceed the initial stock, both
\* succeed and leave total_stock at its initial value minus the quantities.
C5_SequentialOrdersSubtract ==
    ( /\ Responded(1) /\ Responded(2)
      /\ req[1].customer # "" /\ req[2].customer # ""
      /\ Len(req[1].body.items) = 1 /\ Len(req[2].body.items) = 1
      /\ Line(1).productId = Line(2).productId
      /\ req[1].before # <<>>
      /\ ValidTarget(req[1].before, Line(1))
      /\ ValidTarget(req[1].before, Line(2))
      /\ IF Line(1).variantId = Line(2).variantId
         THEN Line(1).quantity + Line(2).quantity
                 <= Available(req[1].before, Line(1))
         ELSE /\ Line(1).quantity <= Available(req[1].before, Line(1))
              /\ Line(2).quantity <= Available(req[1].before, Line(2))
      /\ Line(1).quantity + Line(2).quantity
            <= req[1].before[Line(1).productId].total_stock )
    => /\ Succeeded(1) /\ Succeeded(2)
       /\ products[Line(1).productId].total_stock
             = req[1].before[Line(1).productId].total_stock
                 - (Line(1).quantity + Line(2).quantity)

\* the delivery fee of the checkout rules, for an order as stored
TieredFee(deliveryType, deliveryArea, subtotal) ==
    IF deliveryType = "pickup" THEN 0
    ELSE IF subtotal >= freeDeliveryMinimum THEN 0
    ELSE IF deliveryArea = "sitra" THEN deliveryAreaSitra
    ELSE IF deliveryArea = "muharraq" THEN deliveryAreaMuharraq
    ELSE IF deliveryArea = "other" THEN deliveryAreaOther
    ELSE deliveryFeeSetting

\* C6: the delivery fee in a created order's total is zero for pickup, zero
\* for delivery at or above the free-delivery threshold, and otherwise the
\* fee of the order's area, or the flat fee when no area was given.
C6_TieredDeliveryFee ==
    \A k \in 1..Len(orders) :
        orders[k].total =
           LineSum(orders[k].items)
             + TieredFee(orders[k].deliveryType, BodyOf(k).deliveryArea,
                         LineSum(orders[k].items))

RECURSIVE CatalogSumTo(_, _, _)
CatalogSumTo(rows, items, n) ==
    IF n = 0 THEN 0
    ELSE rows[items[n].productId].price * items[n].quantity
           + CatalogSumTo(rows, items, n - 1)

\* the handler's own computation is what order k stores
StoresComputedTotal(k) == route = "orders.ts" \/ BodyOf(k).total = <<>>

\* C7 as stated: the subtotal of a created order is the sum of quantity x
\* the product's catalogue price at the moment of creation.
C7_CatalogPrice ==
    \A k \in 1..Len(orders) :
        StoresComputedTotal(k)
           => orders[k].total - ServerDeliveryFee(BodyOf(k).deliveryType)
                = CatalogSumTo(req[orders[k].req].before, orders[k].items,
                               Len(orders[k].items))

\* C7 as amended: the subtotal of a created order is the sum of quantity x
\* the line price submitted with the request, whatever the catalogue says;
\* the one other total an order can carry is the total the request itself
\* submitted, which the part_011 handler stores as it is.
C7_LinePrice ==
    \A k \in 1..Len(orders) :
        IF StoresComputedTotal(k)
        THEN orders[k].total - ServerDeliveryFee(BodyOf(k).deliveryType)
               = LineSum(orders[k].items)
        ELSE orders[k].total = BodyOf(k).total[1]

\* C7 happens: an order with a line priced differently from the catalogue
C7_Witness ==
    \E k \in 1..Len(orders) :
        /\ StoresComputedTotal(k)
        /\ orders[k].items[1].price
             # req[orders[k].req].before[orders[k].items[1].productId].price

\* both requests are one-line orders of the same existing variant that
\* passed the stock check on the same stock value
CheckedSameStock(r1, r2) ==
    /\ req[r1].pc \in {"create", "decRead", "decWrite", "responded"}
    /\ req[r2].pc \in {"create", "decRead", "decWrite", "responded"}
    /\ req[r1].seen # NoRow /\ req[r2].seen # NoRow
    /\ Len(req[r1].body.items) = 1 /\ Len(req[r2].body.items) = 1
    /\ NamesVariant(Line(r1))
    /\ Line(r1).productId = Line(r2).productId
    /\ Line(r1).variantId = Line(r2).variantId
    /\ req[r1].seen = req[r2].seen

\* C8: nothing between the stock check and the decrement looks at the stock
\* again: two requests that passed the check on the same stock value of the
\* same variant are both answered with success, also when their quantities
\* together exceed that stock.
C8_BothPassBothSucceed ==
    \A r1, r2 \in Slots :
        (r1 # r2 /\ CheckedSameStock(r1, r2) /\ Responded(r1))
           => /\ req[r1].status = 201
              /\ \E k \in 1..Len(orders) : orders[k].req = r1

\* C8 happens: both orders exist and together exceed the stock both saw
C8_Witness ==
    /\ CheckedSameStock(1, 2)
    /\ Succeeded(1) /\ Succeeded(2)
    /\ Len(orders) = 2
    /\ Line(1).quantity + Line(2).quantity
          > Available(req[1].before, Line(1))
    /\ req[1].before = req[2].before

\* a step in which request r writes the stock of its current item
Writes(r) == req[r].pc = "decWrite" /\ req'[r].writes = req[r].writes + 1

\* C9: the decrement writes the stock computed from the row the handler read
\* before, whatever the row holds when the write arrives.
C9_WriteFromEarlierRead ==
    [][\A r \in Slots :
          Writes(r) =>
             LET item == req[r].body.items[req[r].i]
                 read == req[r].product
                 new == products'[item.productId]
             IN  IF NamesVariant(item)
                 THEN /\ Len(new.variants) = Len(read.variants)
                      /\ \A k \in 1..Len(read.variants) :
                            new.variants[k].stock =
                               IF read.variants[k].id = item.variantId
                               THEN read.variants[k].stock - item.quantity
                               ELSE read.variants[k].stock
                 ELSE new.total_stock =
                         IF read.total_stock >= item.quantity
                         THEN read.total_stock - item.quantity ELSE 0]_vars

\* C9 happens: two one-line orders of variants of one product both
\* succeeded and the variants hold more than the initial stock minus the
\* ordered quantities
C9_Witness ==
    /\ Succeeded(1) /\ Succeeded(2)
    /\ Len(req[1].body.items) = 1 /\ Len(req[2].body.items) = 1
    /\ NamesVariant(Line(1)) /\ NamesVariant(Line(2))
    /\ Line(1).variantId # Line(2).variantId
    /\ req[1].before = req[2].before
    /\ VariantSum(products["p1"].variants)
          > VariantSum(req[1].before["p1"].variants)
               - (Line(1).quantity + Line(2).quantity)

\* C10: the decrement of an item that names a variant reduces that
\* variant's stock by the quantity, leaves every other variant as it was and
\* sets total_stock to the sum over the variants; the decrement of an item
\* without a variant reduces total_stock by the quantity, not below zero; a
\* one-line pickup order of a variant is totalled at quantity x price and
\* leaves the variant's stock reduced by the quantity.
C10_DecrementFrame ==
    /\ [][\A r \in Slots :
            Writes(r) =>
               LET item == req[r].body.items[req[r].i]
                   old == products[item.productId]
                   new == products'[item.productId]
               IN  /\ \A p \in DOMAIN products \ {item.productId} :
                         products'[p] = products[p]
                   /\ new.price = old.price
                   /\ IF NamesVariant(item)
                      THEN /\ Len(new.variants) = Len(old.variants)
                           /\ \A k \in 1..Len(old.variants) :
                                 new.variants[k] =
                                    IF old.variants[k].id = item.variantId
                                    THEN [id |-> old.variants[k].id,
                                          stock |-> old.variants[k].stock
                                                      - item.quantity]
                                    ELSE old.variants[k]
                           /\ new.total_stock = VariantSum(new.variants)
                      ELSE /\ new.variants = old.variants
                           /\ new.total_stock =
                                 IF old.total_stock >= item.quantity
                                 THEN old.total_stock - item.quantity
                                 ELSE 0]_vars
    /\ [](\A r \in Slots :
            ( /\ Succeeded(r) /\ Latest(r)
              /\ Len(req[r].body.items) = 1
              /\ NamesVariant(Line(r))
              /\ req[r].body.deliveryType = "pickup"
              /\ req[r].customer # "" )
            => /\ orders[req[r].orderAt].total
                    = Line(r).quantity * Line(r).price
               /\ Available(products, Line(r))
                    = Available(req[r].before, Line(r)) - Line(r).quantity)

\* C10 happens: an order of two lines, the second without a variant, has
\* been placed and its stock written
C10_Witness ==
    \E r \in Slots :
        /\ Succeeded(r)
        /\ Len(req[r].body.items) = 2
        /\ ~NamesVariant(req[r].body.items[2])
        /\ req[r].writes = 3

\* C11: every variant's stock and every product's total_stock is at least
\* zero in every reachable state, whatever orders were placed, one after the
\* other or interleaved, an order that names one variant in two lines
\* included.
C11_StockNonNegative ==
    \A p \in DOMAIN products :
        /\ products[p].total_stock >= 0
        /\ \A k \in 1..Len(products[p].variants) :
              products[p].variants[k].stock >= 0


\* request r was answered with a storage error after its order row was
\* inserted
FailedAfterInsert(r) ==
    /\ Responded(r)
    /\ req[r].error.kind = "StorageError"
    /\ req[r].orderAt # 0

RECURSIVE DecrementedTo(_, _, _)
\* the products after the decrements of the first n lines
DecrementedTo(rows, items, n) ==
    IF n = 0 THEN rows
    ELSE LET prev == DecrementedTo(rows, items, n - 1) IN
         [prev EXCEPT ![items[n].productId] = DecrementedRow(@, @, items[n])]

\* C12: a storage failure after the order row was inserted is answered with
\* status 500 and not with the 400 of the validation, the order row stays
\* stored, and the stock keeps exactly the decrements of the lines written
\* before the failure.
C12_PartialStateRemains ==
    \A r \in Slots :
        (FailedAfterInsert(r) /\ Latest(r))
           => /\ req[r].status = 500
              /\ req[r].orderAt <= Len(orders)
              /\ orders[req[r].orderAt].req = r
              /\ orders[req[r].orderAt].items = req[r].body.items
              /\ products = DecrementedTo(req[r].before, req[r].body.items,
                                          req[r].writes - 1)

\* C12 happens: the failure came after the first of two lines was written
C12_Witness ==
    \E r \in Slots :
        /\ FailedAfterInsert(r) /\ Latest(r)
        /\ Len(req[r].body.items) = 2
        /\ req[r].writes = 2
        /\ products # req[r].before


\* the step is an updateOrder
IsUpdateOrder == adminOps' = adminOps + 1 /\ last'.op = "updateOrder"

\* C13: an updateOrder whose patch holds items stores the sum of price x
\* quantity over those items as the total, whatever total the patch holds;
\* a patch without items stores the total it holds, or leaves the total as
\* it was, and recomputes nothing.
C13_UpdateRecomputesTotal ==
    [][IsUpdateOrder /\ last'.status = 200 =>
         LET u == last'.arg.updates
             k == OrderIndex(last'.arg.order)
         IN  IF u.items # <<>>
             THEN /\ orders'[k].items = u.items[1]
                  /\ orders'[k].total = LineSum(u.items[1])
             ELSE /\ orders'[k].items = orders[k].items
                  /\ orders'[k].total = IF u.total # <<>> THEN u.total[1]
                                        ELSE orders[k].total]_vars

\* C13 happens: the patch held items and a total that is not their sum
C13_Witness ==
    /\ last.op = "updateOrder" /\ last.status = 200
    /\ last.arg.updates.items # <<>>
    /\ last.arg.updates.total # <<>>
    /\ last.arg.updates.items[1] # <<>>
    /\ last.arg.updates.total[1] # LineSum(last.arg.updates.items[1])
    /\ orders[OrderIndex(last.arg.order)].total
          = LineSum(last.arg.updates.items[1])


\* the step is an updateProduct or a deleteProduct
IsProductChange ==
    /\ adminOps' = adminOps + 1
    /\ last'.op \in {"updateProduct", "deleteProduct"}

\* C14: the price on an order's lines is a snapshot: an updateProduct or a
\* deleteProduct changes no order, and every stored order keeps the lines
\* and the total it was created with, whatever became of its products.
C14_PriceSnapshot ==
    /\ [][IsProductChange => orders' = orders]_vars
    /\ [](\A k \in 1..Len(orders) :
             /\ orders[k].items = BodyOf(k).items
             /\ orders[k].total = Decimal2(FinalTotal(route, BodyOf(k))))

\* C14 happens: the product of a stored order was repriced or deleted
C14_Witness ==
    \E k \in 1..Len(orders) :
        LET item == orders[k].items[1] IN
        /\ last.op \in {"updateProduct", "deleteProduct"}
        /\ last.id = item.productId
        /\ \/ item.productId \notin DOMAIN products
           \/ /\ item.productId \in DOMAIN products
              /\ products[item.productId].price # item.price
        /\ orders[k].total = Decimal2(FinalTotal(route, BodyOf(k)))


\* the step is a deleteCategory
IsDeleteCategory == adminOps' = adminOps + 1 /\ last'.op = "deleteCategory"

IsDeleteCustomer == adminOps' = adminOps + 1 /\ last'.op = "deleteCustomer"

IsChangePassword == last'.op = "changePassword" /\ last' # last

\* the password verifies against the hash stored in admin_users
VerifiesStored(password) ==
    admin_users # <<>> /\ Compare(password, admin_users[1].password_hash)

\* C17: changePassword replaces the stored hash only when the current
\* password verifies against the stored hash and the new one has at least 6
\* characters; a new password that is too short is rejected (400), a wrong
\* current password is answered unauthorized (401, or 500 when the store
\* failed), and in both cases the stored hash is as it was.
C17_ChangePasswordGuarded ==
    [][IsChangePassword =>
         LET cur == last'.arg.currentPassword
             new == last'.arg.newPassword
             failed == \E i \in 1..3 : last'.arg.errors[i]
         IN  /\ admin_users' # admin_users
                   => VerifiesStored(cur) /\ Len(new) >= 6
             /\ Len(new) < 6
                   => last'.status = 400 /\ admin_users' = admin_users
             /\ (Len(new) >= 6 /\ ~VerifiesStored(cur))
                   => /\ last'.status \in {401, 500}
                      /\ ~failed => last'.status = 401
                      /\ admin_users' = admin_users]_vars

\* C18: login succeeds exactly when an admin row exists and the password is
\* the one most recently accepted (by the seeding, or by a change of
\* password that reported success), and never answers success otherwise.
C18_LoginMatchesAccepted ==
    last.op = "login" =>
       /\ last.status = 200
             => admin_users # <<>> /\ accepted = <<last.arg.password>>
       /\ (admin_users # <<>> /\ accepted = <<last.arg.password>>
             /\ ~last.arg.errors[1])
             => last.status = 200
       /\ admin_users = <<>> => last.status # 200


\* C19: seeding is idempotent: once a server process has run
\* initializeDefaultAdmin the admin_users table holds exactly one row, also
\* after two processes started together, and a process that found an admin
\* row has created no admin of its own.
C19_SeedingIdempotent ==
    \A b \in Boots :
        (startup[b].pc = "up" /\ startup[b].lib = "fallback")
           => /\ Len(admin_users) = 1
              /\ fallbackAdminUser[b] = <<>>


\* the step inserts an order row
IsOrderInsert == Len(orders') = Len(orders) + 1

\* every stored order has one of the four statuses
StatusInRange == \A k \in 1..Len(orders) : orders[k].status \in OrderStatuses

\* C20 as claimed: every newly created order starts in status processing,
\* and in every reachable state an order's status is one of processing,
\* ready, delivered, picked-up.
C20_StartsProcessing ==
    /\ [][IsOrderInsert
            => orders'[Len(orders')].status = "processing"]_vars
    /\ []StatusInRange

\* C20 amended: a newly created order starts in the status the request
\* names, in processing when it names none, and in every reachable state an
\* order's status is one of processing, ready, delivered, picked-up.
C20_StartsAsRequested ==
    /\ [][IsOrderInsert =>
            LET new == orders'[Len(orders')] IN
            new.status = IF req[new.req].body.status = "" THEN "processing"
                         ELSE req[new.req].body.status]_vars
    /\ []StatusInRange

\* C20 happens: an order was created in a status other than processing, and
\* a request that named an unknown status was refused by the store
C20_Witness ==
    /\ \E k \in 1..Len(orders) :
          /\ BodyOf(k).status = "ready"
          /\ orders[k].status = "ready"
    /\ \E r \in Slots :
          /\ Responded(r) /\ req[r].body.status = "shipped"
          /\ req[r].status = 500
          /\ \A k \in 1..Len(orders) : orders[k].req # r

\* the answers of the checks on the fields of the request
FieldKinds == {"EmptyItems", "ItemFields", "BadQuantity", "NegativePrice"}

\* the request has no items, or an item without a product, with a quantity
\* below 1 or with a negative price
BadFields(body) ==
    \/ body.items = <<>>
    \/ \E i \in 1..Len(body.items) :
          \/ body.items[i].productId = ""
          \/ body.items[i].quantity <= 0
          \/ body.items[i].price < 0

\* C21: createOrder answers 400 and creates nothing when items is empty or
\* an item has a quantity of 0 or less, no productId or a negative price, and
\* the checks on the fields refuse no other request: an item with a quantity
\* of 1 or more and any price of 0 or more passes them.
C21_FieldChecksExact ==
    \A r \in Slots :
        (Responded(r) /\ req[r].body.customerId # "")
           => /\ BadFields(req[r].body)
                 => /\ req[r].status = 400
                    /\ \A k \in 1..Len(orders) : orders[k].req # r
              /\ req[r].error.kind \in FieldKinds => BadFields(req[r].body)

\* the item names a variant: its variantId is neither absent nor the
\* sentinel
RefersToVariant(item) == item.variantId \notin {"", "no-variant"}

\* the item names a product the table does not hold, or a variant its
\* product does not have
InvalidReference(rows, item) ==
    \/ item.productId \notin DOMAIN rows
    \/ /\ RefersToVariant(item)
       /\ \A k \in 1..Len(rows[item.productId].variants) :
             rows[item.productId].variants[k].id # item.variantId

RefKinds == {"ProductNotFound", "VariantNotFound"}

\* the request passed the checks on its fields
FieldsPass(r) ==
    /\ req[r].body.customerId # ""
    /\ req[r].body.items # <<>>
    /\ \A i \in 1..Len(req[r].body.items) :
          FieldError(req[r].body.items[i]) = NoError

C23_ErrorStatuses ==
    /\ [][IsUpdateOrder =>
            (OrderIndex(last'.arg.order) = 0 => last'.status = 404)]_vars
    /\ [](\A r \in Slots :
            (Responded(r) /\ req[r].status # 201)
               => /\ req[r].error # NoError
                  /\ req[r].status \in {400, 500}
                  /\ ( \/ req[r].error.kind \in FieldKinds \cup RefKinds
                       \/ req[r].error.kind = "InsufficientStock"
                       \/ req[r].body.customerId \notin DOMAIN customers )
                       => req[r].status = 400)

\* the step is a createProduct or an updateProduct
IsProductWrite ==
    /\ adminOps' = adminOps + 1
    /\ last'.op \in {"createProduct", "updateProduct"}

StockAliases == {"total_stock", "stock", "totalStock"}

\* the request carries its stock under exactly one name
OneAlias(x) == Cardinality({f \in StockAliases : x[f] # <<>>}) = 1

\* the stock carried by a request that names it once
AliasValue(x) == x[CHOOSE f \in StockAliases : x[f] # <<>>][1]

\* C24: a product created or updated with a non-empty variants list is
\* stored with the sum of the variant stocks as its total_stock, whatever
\* stock the request carries; one created or updated with no variants is
\* stored with the stock the request carries, under whichever of the names
\* total_stock, stock and totalStock, the value 0 included.
C24_StoredTotalStock ==
    [][IsProductWrite =>
         LET row == products'[last'.id]
             x == last'.arg
         IN  IF last'.op = "createProduct"
             THEN /\ x.variants # <<>>
                       => row.total_stock = VariantSum(x.variants)
                  /\ (x.variants = <<>> /\ OneAlias(x.stock))
                       => row.total_stock = AliasValue(x.stock)
             ELSE /\ (x.variants # <<>> /\ x.variants[1] # <<>>)
                       => row.total_stock = VariantSum(x.variants[1])
                  /\ ( /\ x.variants = <<>> \/ x.variants[1] = <<>>
                       /\ OneAlias(x) )
                       => row.total_stock = AliasValue(x)]_vars

RECURSIVE QuantityOfTo(_, _, _)
QuantityOfTo(items, item, n) ==
    IF n = 0 THEN 0
    ELSE (IF /\ items[n].productId = item.productId
             /\ items[n].variantId = item.variantId
          THEN items[n].quantity ELSE 0)
         + QuantityOfTo(items, item, n - 1)

\* the quantity an order holds of the product or variant of one of its lines
QuantityOf(items, item) == QuantityOfTo(items, item, Len(items))

\* C27: with the requests served one after the other, the quantity of a
\* variant, or of a product without variants, that a created order holds
\* in all its lines is at most the stock that was available when the order
\* was placed, which is the stock the orders before it left.
C27_OrderedWithinStock ==
    \A r \in Slots :
        Succeeded(r) =>
           \A i \in 1..Len(req[r].body.items) :
              QuantityOf(req[r].body.items, req[r].body.items[i])
                 <= Available(req[r].before, req[r].body.items[i])

\* C28: an updateOrder whose patch holds a status only sets any of the four
\* statuses on an order in any status, leaves the items, total, customer,
\* delivery type and delivery area of the order and every other order as
\* they were, and changes no stock.
C28_StatusChangeFrame ==
    [][( /\ IsUpdateOrder
         /\ last'.arg.updates.items = <<>>
         /\ last'.arg.updates.total = <<>>
         /\ last'.arg.updates.status \in OrderStatuses
         /\ OrderIndex(last'.arg.order) # 0 )
         => LET k == OrderIndex(last'.arg.order) IN
            /\ last'.status = 200
            /\ orders' = [orders EXCEPT
                             ![k].status = last'.arg.updates.status]
            /\ products' = products
            /\ customers' = customers]_vars

\* C28 happens: a delivered order of the delivery kind was set back to
\* processing
C28_Witness ==
    /\ last.op = "updateOrder" /\ last.status = 200
    /\ last.arg.updates = OrderPatch(<<>>, <<>>, "processing")
    /\ LET k == OrderIndex(last.arg.order) IN
       /\ BodyOf(k).status = "delivered"
       /\ orders[k].status = "processing"
       /\ orders[k].deliveryType = "delivery"
       /\ orders[k].items = BodyOf(k).items

\* a run of handlePlaceOrder began in slot r
Started(r) == req[r].run = r

\* the customer rows posted by the run that began in slot r
RowsOf(r) ==
    {c \in DOMAIN customers : \E n \in 1..Len(CustomerIds(r)) :
                                 c = CustomerIds(r)[n]}

\* C25: every checkout creates one new customer row, with no lookup by
\* phone: the checkouts submitted with one phone leave as many customer rows
\* with that phone as there were checkouts, and every created order
\* references the customer row its own checkout created.
C25_OneRowPerCheckout ==
    /\ \A ph \in Phones :
          Cardinality({c \in DOMAIN customers : customers[c].phone = ph})
             = Cardinality({r \in Slots :
                              /\ Started(r)
                              /\ customers[CustomerOf(r)].phone = ph})
    /\ \A k \in 1..Len(orders) :
          /\ orders[k].customerId = req[orders[k].req].customer
          /\ orders[k].customerId \in RowsOf(req[orders[k].req].run)

\* the slots that served the calls of the run that began in slot r
SlotsOf(r) == {q \in Slots : req[q].run = r}

\* the productDb.update calls made by the request in slot q
Decrements(q) == IF req[q].orderAt # 0 THEN req[q].writes - 1 ELSE 0

RECURSIVE DecrementsIn(_)
DecrementsIn(slots) ==
    IF slots = {} THEN 0
    ELSE LET q == CHOOSE q \in slots : TRUE
         IN  Decrements(q) + DecrementsIn(slots \ {q})

\* C26: one run of handlePlaceOrder creates at most one order row and
\* decrements the stock at most once for each line of its cart, also when
\* apiCall sends POST /api/orders again after a timeout or a broken
\* connection.
C26_OneOrderPerRun ==
    \A r \in Slots :
        Started(r) =>
           /\ Cardinality({k \in 1..Len(orders) :
                             orders[k].req \in SlotsOf(r)}) <= 1
           /\ DecrementsIn(SlotsOf(r)) <= Len(req[r].body.items)

\* the step ends the run of handlePlaceOrder that waits on slot r
EndsRun(r) == req[r].client = "waiting" /\ req'[r].client = "done"

\* the runs of handlePlaceOrder of dialog d that have not ended
RunsOf(d) == {r \in Slots : req[r].dialog = d /\ req[r].client = "waiting"}

\* C29: the cart is cleared and the success screen shown only by a run
\* whose customer and order were both created; a run whose order call
\* failed leaves the cart and the success state as they were; every run
\* ends with isSubmitting false; and no second run of handlePlaceOrder
\* starts in a dialog before the first has ended.
C29_SubmitOnce ==
    /\ [][\A d \in Dialogs :
            ( \/ dialog'[d].orderSuccess /\ ~dialog[d].orderSuccess
              \/ dialog'[d].items = <<>> /\ dialog[d].items # <<>> )
            => \E r \in Slots :
                  /\ EndsRun(r) /\ req[r].dialog = d
                  /\ req[r].status = 201
                  /\ req[r].customer \in DOMAIN customers
                  /\ \E k \in 1..Len(orders) : orders[k].req = r]_vars
    /\ [][\A r \in Slots :
            EndsRun(r) =>
               LET d == req[r].dialog IN
               /\ ~dialog'[d].isSubmitting
               /\ req[r].status # 201
                    => /\ dialog'[d].items = dialog[d].items
                       /\ dialog'[d].orderSuccess = dialog[d].orderSuccess]_vars
    /\ [](\A d \in Dialogs : Cardinality(RunsOf(d)) <= 1)

====
